---- MODULE Spec2Model ----
(***************************************************************************)
(* A state-machine model of better-next-api: the immutable ApiBuilder      *)
(* (src/src/api-builder.ts), the route handler it compiles, and ApiError   *)
(* (src/unnamed/part_001, imported as "./api-error").                      *)
(*                                                                         *)
(* Builders live in a heap (builders) and hold a reference into a heap of  *)
(* arrays (arrays), so that sharing and in-place mutation are expressible. *)
(* Spec starts from createApiHandler() and interleaves configuration      *)
(* calls, terminal calls and requests.  SpecRequest starts from one       *)
(* exported route, compiled from a builder with any configuration, and    *)
(* serves requests on it.                                                  *)
(***************************************************************************)
EXTENDS Integers, Sequences, FiniteSets, TLC

VARIABLES builders, arrays, routes, reqs

vars == <<builders, arrays, routes, reqs>>

(* ------------------------------ bounds --------------------------------- *)

MaxBuilders == 3
MaxRoutes == 1
MaxInFlight == 2
MaxMiddlewares == 2

(* --------------------------- value universe ---------------------------- *)
(* Every JavaScript value is a record, so that any two values can be      *)
(* compared: undefined, strings, numbers and arrays are tagged records,   *)
(* an object is the record of its properties.                             *)

Undefined == [undefined |-> TRUE]
Str(s) == [string |-> s]
Chars(cs) == [chars |-> cs]      \* a string whose characters the code inspects
Num(n) == [number |-> n]
Arr(elems) == [array |-> elems]

\* typeof v, for the values whose type the code tests.
TypeOf(v) ==
  IF "undefined" \in DOMAIN v THEN "undefined"
  ELSE IF "string" \in DOMAIN v \/ "chars" \in DOMAIN v THEN "string"
  ELSE IF "number" \in DOMAIN v THEN "number"
  ELSE "object"

Schema(name) == [schema |-> name]
Fn(name) == [fn |-> name]

Schemas == {Schema("A"), Schema("B")}
MiddlewareFns == {"m1", "m2"}
FailureHandlers == {Fn("h1"), Fn("h2")}
HandlerFns == {"handler"}
Methods == {"GET", "POST", "PUT", "PATCH", "DELETE"}

\* Property read: o[k], or undefined when the property is absent.
Get(o, k) == IF k \in DOMAIN o THEN o[k] ELSE Undefined

EmptyObject == [k \in {} |-> Undefined]

\* { ...a, ...b }: the properties of b override those of a.
ObjectSpread(a, b) ==
  [k \in DOMAIN a \cup DOMAIN b |-> IF k \in DOMAIN b THEN b[k] ELSE a[k]]

\* Object.fromEntries(entries): a later entry overrides an earlier one.
RECURSIVE FromEntries(_)
FromEntries(entries) ==
  IF entries = <<>> THEN EmptyObject
  ELSE ObjectSpread(FromEntries(SubSeq(entries, 1, Len(entries) - 1)),
                    [k \in {entries[Len(entries)][1]} |-> Str(entries[Len(entries)][2])])

\* JSON encoding of an object: properties whose value is undefined are dropped.
JsonStringify(o) ==
  [k \in {p \in DOMAIN o : o[p] # Undefined} |-> o[k]]

\* String.prototype.startsWith on character sequences.
StartsWith(s, prefix) ==
  /\ Len(s) >= Len(prefix)
  /\ SubSeq(s, 1, Len(prefix)) = prefix

NextPrefix == <<"N", "E", "X", "T", "_">>

\* A thrown value: its typeof, whether it is null, whether it is an
\* instance of ApiError, and its properties.
Thrown(typeof, isNull, isApiError, props) ==
  [typeof |-> typeof, isNull |-> isNull, isApiError |-> isApiError, props |-> props]

\* new Error(message), optionally with extra properties assigned.
PlainError(message, extra) ==
  Thrown("object", FALSE, FALSE, ObjectSpread([message |-> Str(message)], extra))

\* Variant of ApiError: props.code ?? 400.
ApiErrorDefaultsTo400(props) ==
  Thrown("object", FALSE, TRUE,
    [name |-> Str("ApiError"),
     message |-> Get(props, "message"),
     code |-> IF Get(props, "code") = Undefined THEN Num(400) ELSE props.code,
     type |-> IF Get(props, "type") = Undefined
              THEN Str("INTERNAL_SERVER_ERROR") ELSE props.type,
     issues |-> Get(props, "issues")])

\* new ApiError(props)   (api-error.ts)
ApiError(props) ==
  Thrown("object", FALSE, TRUE,
    [name |-> Str("ApiError"),
     message |-> Get(props, "message"),
     code |-> IF Get(props, "code") = Undefined THEN Num(500) ELSE props.code,
     type |-> IF Get(props, "type") = Undefined
              THEN Str("INTERNAL_SERVER_ERROR") ELSE props.type,
     issues |-> Get(props, "issues")])

\* Object.assign(error, extra)
Assign(error, extra) == [error EXCEPT !.props = ObjectSpread(@, extra)]

\* Variant of isNextJsInternalError: digest === "NEXT_" instead of startsWith.
isNextJsInternalErrorExact(error) ==
  IF error.typeof # "object" \/ error.isNull \/ ~("digest" \in DOMAIN error.props)
  THEN FALSE
  ELSE LET digest == error.props.digest
       IN  TypeOf(digest) = "string" /\ digest.chars = NextPrefix

isNextJsInternalError(error) ==
  IF error.typeof # "object" \/ error.isNull \/ ~("digest" \in DOMAIN error.props)
  THEN FALSE
  ELSE LET digest == error.props.digest
       IN  TypeOf(digest) = "string" /\ StartsWith(digest.chars, NextPrefix)

\* NextResponse.json(body, { status })
NextResponseJson(bodyObj, status) ==
  [isNextResponse |-> TRUE, status |-> status, body |-> JsonStringify(bodyObj)]

(* ---- what the collaborators (router, validator, user callbacks) supply ---- *)

Redirect ==
  PlainError("NEXT_REDIRECT", [digest |-> Chars(<<"N", "E", "X", "T", "_", "R">>)])
Unauthorized ==
  ApiError([code |-> Num(401), type |-> Str("UNAUTHORIZED"), message |-> Str("no"),
            issues |-> Arr(<< [field |-> Str("token")] >>)])
BareApiError == ApiError([message |-> Str("boom")])
ApiErrorWithDigest ==
  Assign(ApiError([code |-> Num(403), type |-> Str("FORBIDDEN"), message |-> Str("stop")]),
         [digest |-> Chars(<<"N", "E", "X", "T", "_", "N">>)])
Crash == PlainError("db down", EmptyObject)
OtherCrash == PlainError("secret", EmptyObject)
ShortDigest == PlainError("short", [digest |-> Chars(<<"N", "E", "X", "T">>)])
NumberDigest == PlainError("num", [digest |-> Num(7)])
ThrownString == Thrown("string", FALSE, FALSE, EmptyObject)
ThrownNull == Thrown("object", TRUE, FALSE, EmptyObject)

\* What a validator, a middleware step, the handler or the hook may throw.
RaisedValues ==
  {Redirect, Unauthorized, BareApiError, ApiErrorWithDigest, Crash, OtherCrash,
   ShortDigest, NumberDigest, ThrownString, ThrownNull}

\* What the failure handler may throw: its error is only logged.
HookRaisedValues == {Redirect, Unauthorized, Crash}

\* What req.json() throws on an unparsable payload.
SyntaxError == PlainError("Unexpected token", EmptyObject)

\* What routeCtx.params resolves to.
ParamsValues == {EmptyObject, [id |-> Str("7")]}

\* req.nextUrl.searchParams.entries()
SearchParamsValues == {<<>>, << <<"q", "1">>, <<"q", "2">> >>}

\* What req.json() resolves to.
JsonValues == {[title |-> Str("t")]}

\* The output and the issues a schema reports for a datum.
Parsed(schema, data) == [by |-> schema, parsed |-> data]
Issues(schema, data) == Arr(<< [by |-> schema, rejected |-> data] >>)

\* schema.safeParseAsync(data): success, failure, or the validator throws.
SafeParseOutcomes(schema, data) ==
  {[kind |-> "success", data |-> Parsed(schema, data)],
   [kind |-> "failure", issues |-> Issues(schema, data)]}
  \cup {[kind |-> "raise", value |-> e] : e \in RaisedValues}

\* Partial contexts a middleware step may return.
MiddlewareOutputs ==
  {EmptyObject, [user |-> Str("u1")], [user |-> Str("u2"), role |-> Str("admin")]}

\* What a handler may return: a NextResponse, or a plain value.
BuiltResponse ==
  [isNextResponse |-> TRUE, status |-> Num(302), body |-> [to |-> Str("/login")]]
HandlerResults ==
  {BuiltResponse,
   [isNextResponse |-> FALSE, value |-> [id |-> Str("1")]],
   [isNextResponse |-> FALSE, value |-> [id |-> Str("2"), note |-> Undefined]]}

(* ------------------------------ builder -------------------------------- *)

\* The own enumerable properties of a builder: what `...this` copies.
Spread(this) == builders[this]

\* this.middlewares, dereferenced.
MiddlewaresOf(this) == arrays[builders[this].middlewares]

\* What a builder is configured with, arrays dereferenced.
ConfigOf(this) ==
  [contextSchema |-> builders[this].contextSchema,
   querySchema |-> builders[this].querySchema,
   bodySchema |-> builders[this].bodySchema,
   middlewares |-> MiddlewaresOf(this),
   failureHandler |-> builders[this].failureHandler]

\* new ApiBuilder(config): the constructor copies the five fields.
NewApiBuilder(config) ==
  [contextSchema |-> config.contextSchema,
   querySchema |-> config.querySchema,
   bodySchema |-> config.bodySchema,
   middlewares |-> config.middlewares,
   failureHandler |-> config.failureHandler]

\* createApiHandler(): the state after construction.
createApiHandler ==
  /\ arrays = << <<>> >>
  /\ builders = << NewApiBuilder([contextSchema |-> Undefined,
                                  querySchema |-> Undefined,
                                  bodySchema |-> Undefined,
                                  middlewares |-> 1,
                                  failureHandler |-> Undefined]) >>

Init ==
  /\ createApiHandler
  /\ routes = <<>>
  /\ reqs = <<>>

context(this, schema) ==
  /\ Len(builders) < MaxBuilders
  /\ builders' = Append(builders,
        NewApiBuilder([Spread(this) EXCEPT !.contextSchema = schema]))
  /\ UNCHANGED <<arrays, routes, reqs>>

query(this, schema) ==
  /\ Len(builders) < MaxBuilders
  /\ builders' = Append(builders,
        NewApiBuilder([Spread(this) EXCEPT !.querySchema = schema]))
  /\ UNCHANGED <<arrays, routes, reqs>>

body(this, schema) ==
  /\ Len(builders) < MaxBuilders
  /\ builders' = Append(builders,
        NewApiBuilder([Spread(this) EXCEPT !.bodySchema = schema]))
  /\ UNCHANGED <<arrays, routes, reqs>>

\* Variant of use: this.middlewares.push(middleware) on the shared array.
usePushesInPlace(this, middleware) ==
  /\ Len(builders) < MaxBuilders
  /\ arrays' = [arrays EXCEPT ![builders[this].middlewares] = Append(@, middleware)]
  /\ builders' = Append(builders, NewApiBuilder(Spread(this)))
  /\ UNCHANGED <<routes, reqs>>

\* Variant of use: [middleware, ...this.middlewares].
usePrepends(this, middleware) ==
  /\ Len(builders) < MaxBuilders
  /\ arrays' = Append(arrays, <<middleware>> \o MiddlewaresOf(this))
  /\ builders' = Append(builders,
        NewApiBuilder([Spread(this) EXCEPT !.middlewares = Len(arrays) + 1]))
  /\ UNCHANGED <<routes, reqs>>

\* [...this.middlewares, middleware] allocates a new array.
use(this, middleware) ==
  /\ Len(builders) < MaxBuilders
  /\ arrays' = Append(arrays, Append(MiddlewaresOf(this), middleware))
  /\ builders' = Append(builders,
        NewApiBuilder([Spread(this) EXCEPT !.middlewares = Len(arrays) + 1]))
  /\ UNCHANGED <<routes, reqs>>

\* Variant of failed: failureHandler: this.failureHandler ?? handler.
failedKeepsFirst(this, handler) ==
  /\ Len(builders) < MaxBuilders
  /\ builders' = Append(builders,
        NewApiBuilder([Spread(this) EXCEPT !.failureHandler =
                         IF @ = Undefined THEN handler ELSE @]))
  /\ UNCHANGED <<arrays, routes, reqs>>

failed(this, handler) ==
  /\ Len(builders) < MaxBuilders
  /\ builders' = Append(builders,
        NewApiBuilder([Spread(this) EXCEPT !.failureHandler = handler]))
  /\ UNCHANGED <<arrays, routes, reqs>>

\* get/post/put/patch/delete(handler): the closure captures this, method
\* and handler.  compiledFrom and compiledAt record the configuration and
\* the number of builders at compile time.
createRouteHandler(this, method, handler) ==
  /\ Len(routes) < MaxRoutes
  /\ routes' = Append(routes,
        [this |-> this, method |-> method, handler |-> handler,
         compiledFrom |-> ConfigOf(this), compiledAt |-> Len(builders)])
  /\ UNCHANGED <<builders, arrays, reqs>>

(* --------------------------- request pipeline -------------------------- *)
(* One request is one invocation of the closure createRouteHandler        *)
(* returns.  Its record holds the closure's locals and its position (pc,  *)
(* the await it is suspended at); raised, calls, outs, result and         *)
(* hookCalls record what was thrown, which callbacks were invoked with    *)
(* which input, and what they returned.                                   *)

\* Variant of BodyMethods: every method but GET carries a body.
BodyMethodsWithDelete == {"POST", "PUT", "PATCH", "DELETE"}

BodyMethods == {"POST", "PUT", "PATCH"}

NewRequest(id, route) ==
  [req |-> id, route |-> route, pc |-> "context",
   validatedContext |-> Undefined, validatedQuery |-> Undefined,
   validatedBody |-> Undefined, json |-> Undefined,
   cumulativeCtx |-> EmptyObject, iterating |-> 0, i |-> 0,
   caught |-> Undefined, outcome |-> Undefined,
   raised |-> <<>>, calls |-> <<>>, outs |-> <<>>, result |-> Undefined,
   hookCalls |-> <<>>]

ThisOf(rq) == routes[rq.route].this
MethodOf(rq) == routes[rq.route].method

Returned(response) == [kind |-> "returned", response |-> response]
Rethrown(error) == [kind |-> "thrown", value |-> error]

\* Variant of Fallback: the caught error's own message is sent.
FallbackSendsMessage(rq) ==
  [rq EXCEPT !.pc = "done",
             !.outcome = Returned(NextResponseJson(
                 [message |-> Get(rq.caught.props, "message"),
                  type |-> Str("INTERNAL_SERVER_ERROR")], Num(500)))]

\* The fallback for all unexpected errors (lines 315-323).
Fallback(rq) ==
  [rq EXCEPT !.pc = "done",
             !.outcome = Returned(NextResponseJson(
                 [message |-> Str("An internal server error occurred."),
                  type |-> Str("INTERNAL_SERVER_ERROR")], Num(500)))]

\* Variant of Catch: the failure handler is consulted before the ApiError test.
CatchHookBeforeApiError(rq, error) ==
  LET failureHandler == builders[ThisOf(rq)].failureHandler
      c == [rq EXCEPT !.caught = error]
  IN  IF isNextJsInternalError(error)
      THEN [c EXCEPT !.pc = "done", !.outcome = Rethrown(error)]
      ELSE IF failureHandler # Undefined
      THEN [c EXCEPT !.pc = "inHook",
                     !.hookCalls = Append(@, [fn |-> failureHandler,
                                              input |-> [req |-> rq.req, error |-> error]])]
      ELSE IF error.isApiError
      THEN [c EXCEPT !.pc = "done",
                     !.outcome = Returned(NextResponseJson(
                         [message |-> Get(error.props, "message"),
                          type |-> Get(error.props, "type"),
                          issues |-> Get(error.props, "issues")],
                         Get(error.props, "code")))]
      ELSE Fallback(c)

\* Variant of Catch: instanceof ApiError is tested before the digest.
CatchApiErrorFirst(rq, error) ==
  LET failureHandler == builders[ThisOf(rq)].failureHandler
      c == [rq EXCEPT !.caught = error]
  IN  IF error.isApiError
      THEN [c EXCEPT !.pc = "done",
                     !.outcome = Returned(NextResponseJson(
                         [message |-> Get(error.props, "message"),
                          type |-> Get(error.props, "type"),
                          issues |-> Get(error.props, "issues")],
                         Get(error.props, "code")))]
      ELSE IF isNextJsInternalError(error)
      THEN [c EXCEPT !.pc = "done", !.outcome = Rethrown(error)]
      ELSE IF failureHandler # Undefined
      THEN [c EXCEPT !.pc = "inHook",
                     !.hookCalls = Append(@, [fn |-> failureHandler,
                                              input |-> [req |-> rq.req, error |-> error]])]
      ELSE Fallback(c)

\* The catch block (lines 293-313), up to the await of the failure handler.
Catch(rq, error) ==
  LET failureHandler == builders[ThisOf(rq)].failureHandler
      c == [rq EXCEPT !.caught = error]
  IN  IF isNextJsInternalError(error)
      THEN [c EXCEPT !.pc = "done", !.outcome = Rethrown(error)]
      ELSE IF error.isApiError
      THEN [c EXCEPT !.pc = "done",
                     !.outcome = Returned(NextResponseJson(
                         [message |-> Get(error.props, "message"),
                          type |-> Get(error.props, "type"),
                          issues |-> Get(error.props, "issues")],
                         Get(error.props, "code")))]
      ELSE IF failureHandler # Undefined
      THEN [c EXCEPT !.pc = "inHook",
                     !.hookCalls = Append(@, [fn |-> failureHandler,
                                              input |-> [req |-> rq.req, error |-> error]])]
      ELSE Fallback(c)

\* A value thrown at stage `at` inside the outer try.
Raise(rq, at, value) ==
  Catch([rq EXCEPT !.raised = Append(@, [at |-> at, value |-> value])], value)

\* validate(schema, data) (lines 331-345); outcome is what safeParseAsync does.
validate(schema, data, outcome) ==
  IF schema = Undefined
  THEN [threw |-> FALSE, value |-> IF data = Undefined THEN Undefined ELSE data]
  ELSE IF outcome.kind = "raise"
  THEN [threw |-> TRUE, value |-> outcome.value]
  ELSE IF outcome.kind # "success"
  THEN [threw |-> TRUE,
        value |-> ApiError([code |-> Num(400), type |-> Str("VALIDATION_ERROR"),
                            message |-> Str("Invalid input."),
                            issues |-> outcome.issues])]
  ELSE [threw |-> FALSE, value |-> outcome.data]

\* safeParseAsync is called only when a schema is configured.
OutcomesFor(schema, data) ==
  IF schema = Undefined THEN {[kind |-> "notCalled"]} ELSE SafeParseOutcomes(schema, data)

\* { ...inputBase, ctx: cumulativeCtx } (lines 268-273, 278, 283).
HandlerInput(rq) ==
  [context |-> rq.validatedContext, query |-> rq.validatedQuery,
   body |-> rq.validatedBody, req |-> rq.req, ctx |-> rq.cumulativeCtx]

\* One turn of the for-of loop (line 277): call the next middleware, or
\* leave the loop and call the handler (line 283).
LoopStep(rq) ==
  LET middlewares == arrays[rq.iterating]
  IN  IF rq.i < Len(middlewares)
      THEN [rq EXCEPT !.i = @ + 1, !.pc = "inMiddleware",
                      !.calls = Append(@, [fn |-> middlewares[rq.i + 1],
                                           input |-> HandlerInput(rq)])]
      ELSE [rq EXCEPT !.pc = "inHandler",
                      !.calls = Append(@, [fn |-> routes[rq.route].handler,
                                           input |-> HandlerInput(rq)])]

\* Variant of EnterLoop: one accumulator, declared outside the closure, is
\* shared by the invocations in flight.
EnterLoopSharedCtx(rq) ==
  LET others == {reqs[q] : q \in {q \in 1..Len(reqs) :
                    /\ reqs[q].req # rq.req
                    /\ reqs[q].pc \in {"inMiddleware", "inHandler"}}}
  IN  LoopStep([rq EXCEPT !.cumulativeCtx = IF others = {} THEN EmptyObject
                                            ELSE (CHOOSE q \in others : TRUE).cumulativeCtx,
                          !.iterating = builders[ThisOf(rq)].middlewares,
                          !.i = 0])

\* Lines 268-277: build inputBase, start from an empty cumulative context.
EnterLoop(rq) ==
  LoopStep([rq EXCEPT !.cumulativeCtx = EmptyObject,
                      !.iterating = builders[ThisOf(rq)].middlewares,
                      !.i = 0])

\* Variant of BodyCatch: the inner catch swallows every error.
BodyCatchSwallows(rq) == EnterLoop(rq)

\* Variant of BodyCatch: the inner catch throws without testing bodySchema.
BodyCatchAlwaysThrows(rq) ==
  Raise(rq, "bodyCatch",
        ApiError([code |-> Num(400), type |-> Str("INVALID_BODY"),
                  message |-> Str("Invalid JSON body provided.")]))

\* The inner catch (lines 257-265).
BodyCatch(rq) ==
  IF builders[ThisOf(rq)].bodySchema # Undefined
  THEN Raise(rq, "bodyCatch",
             ApiError([code |-> Num(400), type |-> Str("INVALID_BODY"),
                       message |-> Str("Invalid JSON body provided.")]))
  ELSE EnterLoop(rq)

\* The router calls entry point `route`; the request occupies `slot`.
Invoke(route, slot) ==
  /\ route \in 1..Len(routes)
  /\ \/ slot = Len(reqs) + 1 /\ reqs' = Append(reqs, NewRequest(slot, route))
     \/ /\ slot \in 1..Len(reqs)
        /\ reqs[slot].pc = "done"
        /\ reqs' = [reqs EXCEPT ![slot] = NewRequest(slot, route)]
  /\ UNCHANGED <<builders, arrays, routes>>

\* Lines 243-246.
ValidateContext(r) ==
  /\ reqs[r].pc = "context"
  /\ LET rq == reqs[r]
         schema == builders[ThisOf(rq)].contextSchema
     IN  \E params \in ParamsValues : \E outcome \in OutcomesFor(schema, params) :
           LET v == validate(schema, params, outcome)
           IN  reqs' = [reqs EXCEPT ![r] =
                 IF v.threw THEN Raise(rq, "context", v.value)
                 ELSE [rq EXCEPT !.pc = "query", !.validatedContext = v.value]]
  /\ UNCHANGED <<builders, arrays, routes>>

\* Lines 247-253.
ValidateQuery(r) ==
  /\ reqs[r].pc = "query"
  /\ LET rq == reqs[r]
         schema == builders[ThisOf(rq)].querySchema
     IN  \E entries \in SearchParamsValues :
         \E outcome \in OutcomesFor(schema, FromEntries(entries)) :
           LET v == validate(schema, FromEntries(entries), outcome)
               ok == [rq EXCEPT !.validatedQuery = v.value]
           IN  reqs' = [reqs EXCEPT ![r] =
                 IF v.threw THEN Raise(rq, "query", v.value)
                 ELSE IF MethodOf(rq) \in BodyMethods
                 THEN [ok EXCEPT !.pc = "json"]
                 ELSE EnterLoop(ok)]
  /\ UNCHANGED <<builders, arrays, routes>>

\* Line 255: req.json() resolves.
ParseBody(r) ==
  /\ reqs[r].pc = "json"
  /\ \E json \in JsonValues :
       reqs' = [reqs EXCEPT ![r] = [@ EXCEPT !.pc = "body", !.json = json]]
  /\ UNCHANGED <<builders, arrays, routes>>

\* Line 255: req.json() rejects, into the inner catch.
ParseBodyFails(r) ==
  /\ reqs[r].pc = "json"
  /\ reqs' = [reqs EXCEPT ![r] =
        BodyCatch([@ EXCEPT !.raised = Append(@, [at |-> "json", value |-> SyntaxError])])]
  /\ UNCHANGED <<builders, arrays, routes>>

\* Line 256, and the inner catch when validate throws.
ValidateBody(r) ==
  /\ reqs[r].pc = "body"
  /\ LET rq == reqs[r]
         schema == builders[ThisOf(rq)].bodySchema
     IN  \E outcome \in OutcomesFor(schema, rq.json) :
           LET v == validate(schema, rq.json, outcome)
           IN  reqs' = [reqs EXCEPT ![r] =
                 IF v.threw
                 THEN BodyCatch([rq EXCEPT !.raised =
                                   Append(@, [at |-> "body", value |-> v.value])])
                 ELSE EnterLoop([rq EXCEPT !.validatedBody = v.value])]
  /\ UNCHANGED <<builders, arrays, routes>>

\* Variant of MiddlewareReturns: { ...newCtx, ...cumulativeCtx }.
MiddlewareReturnsEarlierWins(r) ==
  /\ reqs[r].pc = "inMiddleware"
  /\ \E newCtx \in MiddlewareOutputs :
       reqs' = [reqs EXCEPT ![r] =
         LoopStep([@ EXCEPT !.cumulativeCtx = ObjectSpread(newCtx, @),
                            !.outs = Append(@, newCtx)])]
  /\ UNCHANGED <<builders, arrays, routes>>

\* Lines 278-279: the awaited middleware resolves.
MiddlewareReturns(r) ==
  /\ reqs[r].pc = "inMiddleware"
  /\ \E newCtx \in MiddlewareOutputs :
       reqs' = [reqs EXCEPT ![r] =
         LoopStep([@ EXCEPT !.cumulativeCtx = ObjectSpread(@, newCtx),
                            !.outs = Append(@, newCtx)])]
  /\ UNCHANGED <<builders, arrays, routes>>

\* Variant of MiddlewareRaises: the rejection is dropped and the loop goes on.
MiddlewareRaisesContinues(r) ==
  /\ reqs[r].pc = "inMiddleware"
  /\ \E e \in RaisedValues :
       reqs' = [reqs EXCEPT ![r] =
         LoopStep([@ EXCEPT !.raised = Append(@, [at |-> "middleware", value |-> e])])]
  /\ UNCHANGED <<builders, arrays, routes>>

\* Line 278: the awaited middleware rejects.
MiddlewareRaises(r) ==
  /\ reqs[r].pc = "inMiddleware"
  /\ \E e \in RaisedValues :
       reqs' = [reqs EXCEPT ![r] = Raise(@, "middleware", e)]
  /\ UNCHANGED <<builders, arrays, routes>>

\* Variant of HandlerReturns: 201 for every method that carries a body.
HandlerReturnsCreatedForBodyMethods(r) ==
  /\ reqs[r].pc = "inHandler"
  /\ \E result \in HandlerResults :
       LET status == IF MethodOf(reqs[r]) \in BodyMethods THEN Num(201) ELSE Num(200)
       IN  reqs' = [reqs EXCEPT ![r] =
             [@ EXCEPT !.pc = "done", !.result = result,
                       !.outcome = IF result.isNextResponse
                                   THEN Returned(result)
                                   ELSE Returned(NextResponseJson(result.value, status))]]
  /\ UNCHANGED <<builders, arrays, routes>>

\* Lines 283-292: the handler resolves; the success response.
HandlerReturns(r) ==
  /\ reqs[r].pc = "inHandler"
  /\ \E result \in HandlerResults :
       LET status == IF MethodOf(reqs[r]) = "POST" THEN Num(201) ELSE Num(200)
       IN  reqs' = [reqs EXCEPT ![r] =
             [@ EXCEPT !.pc = "done", !.result = result,
                       !.outcome = IF result.isNextResponse
                                   THEN Returned(result)
                                   ELSE Returned(NextResponseJson(result.value, status))]]
  /\ UNCHANGED <<builders, arrays, routes>>

\* Variant of HandlerRaises: the rejection leaves the closure uncaught.
HandlerRaisesUncaught(r) ==
  /\ reqs[r].pc = "inHandler"
  /\ \E e \in RaisedValues :
       reqs' = [reqs EXCEPT ![r] =
         [@ EXCEPT !.pc = "done", !.outcome = Rethrown(e),
                   !.raised = Append(@, [at |-> "handler", value |-> e])]]
  /\ UNCHANGED <<builders, arrays, routes>>

\* Line 283: the handler rejects.
HandlerRaises(r) ==
  /\ reqs[r].pc = "inHandler"
  /\ \E e \in RaisedValues :
       reqs' = [reqs EXCEPT ![r] = Raise(@, "handler", e)]
  /\ UNCHANGED <<builders, arrays, routes>>

\* Line 309: the failure handler resolves.
HookReturns(r) ==
  /\ reqs[r].pc = "inHook"
  /\ reqs' = [reqs EXCEPT ![r] = Fallback(@)]
  /\ UNCHANGED <<builders, arrays, routes>>

\* Variant of HookRaises: no inner try, the hook's error leaves the catch block.
HookRaisesPropagates(r) ==
  /\ reqs[r].pc = "inHook"
  /\ \E e \in HookRaisedValues :
       reqs' = [reqs EXCEPT ![r] =
         [@ EXCEPT !.raised = Append(@, [at |-> "hook", value |-> e]),
                   !.pc = "done", !.outcome = Rethrown(e)]]
  /\ UNCHANGED <<builders, arrays, routes>>

\* Lines 310-312: the failure handler rejects; its error is only logged.
HookRaises(r) ==
  /\ reqs[r].pc = "inHook"
  /\ \E e \in HookRaisedValues :
       reqs' = [reqs EXCEPT ![r] =
         Fallback([@ EXCEPT !.raised = Append(@, [at |-> "hook", value |-> e])])]
  /\ UNCHANGED <<builders, arrays, routes>>

Step(r) ==
  \/ ValidateContext(r)
  \/ ValidateQuery(r)
  \/ ParseBody(r)
  \/ ParseBodyFails(r)
  \/ ValidateBody(r)
  \/ MiddlewareReturns(r)
  \/ MiddlewareRaises(r)
  \/ HandlerReturns(r)
  \/ HandlerRaises(r)
  \/ HookReturns(r)
  \/ HookRaises(r)

\* Requests served one after another.
Serve ==
  \/ \E route \in 1..Len(routes) : Invoke(route, 1)
  \/ \E r \in 1..Len(reqs) : Step(r)

Configure ==
  \E this \in 1..Len(builders) :
    \/ \E s \in Schemas : context(this, s)
    \/ \E s \in Schemas : query(this, s)
    \/ \E s \in Schemas : body(this, s)
    \/ \E m \in MiddlewareFns : use(this, m)
    \/ \E h \in FailureHandlers : failed(this, h)

Compile ==
  \E this \in 1..Len(builders), method \in Methods, h \in HandlerFns :
    createRouteHandler(this, method, h)

Next == Configure \/ Compile \/ Serve

Spec == Init /\ [][Next]_vars

\* Sequences over S of length at most n.
SeqsUpTo(S, n) == UNION {[1..k -> S] : k \in 0..n}

\* One exported route: a builder configured by some chain of calls on
\* createApiHandler(), and the entry point a terminal call compiled from it.
InitRequest ==
  \E cs \in {Undefined, Schema("A")}, qs \in {Undefined, Schema("B")},
     bs \in {Undefined, Schema("B")}, fh \in {Undefined, Fn("h1")},
     mws \in SeqsUpTo(MiddlewareFns, MaxMiddlewares),
     method \in Methods, h \in HandlerFns :
    /\ arrays = <<mws>>
    /\ builders = << NewApiBuilder([contextSchema |-> cs, querySchema |-> qs,
                                    bodySchema |-> bs, middlewares |-> 1,
                                    failureHandler |-> fh]) >>
    /\ routes = << [this |-> 1, method |-> method, handler |-> h,
                    compiledFrom |-> [contextSchema |-> cs, querySchema |-> qs,
                                      bodySchema |-> bs, middlewares |-> mws,
                                      failureHandler |-> fh],
                    compiledAt |-> 1] >>
    /\ reqs = <<>>

SpecRequest == InitRequest /\ [][Serve]_vars

\* Every awaited validator, middleware step, handler and hook settles, so
\* a suspended request is eventually resumed.
SpecSettling == SpecRequest /\ WF_vars(\E r \in 1..Len(reqs) : Step(r))

\* Requests in flight at once on the same entry point: a new invocation may
\* start, and any suspended one may resume, at every await.
ServeConcurrently ==
  \/ \E route \in 1..Len(routes), slot \in 1..MaxInFlight : Invoke(route, slot)
  \/ \E r \in 1..Len(reqs) : Step(r)

\* The exported routes requests are interleaved on: use(m1).use(m2).get(h),
\* and use(m1).failed(h1).post(h).
ConcurrentRoutes ==
  {[method |-> "GET", failureHandler |-> Undefined, middlewares |-> <<"m1", "m2">>],
   [method |-> "POST", failureHandler |-> Fn("h1"), middlewares |-> <<"m1">>]}

InitConcurrent ==
  \E c \in ConcurrentRoutes, h \in HandlerFns :
    /\ arrays = <<c.middlewares>>
    /\ builders = << NewApiBuilder([contextSchema |-> Undefined, querySchema |-> Undefined,
                                    bodySchema |-> Undefined, middlewares |-> 1,
                                    failureHandler |-> c.failureHandler]) >>
    /\ routes = << [this |-> 1, method |-> c.method, handler |-> h,
                    compiledFrom |-> [contextSchema |-> Undefined, querySchema |-> Undefined,
                                      bodySchema |-> Undefined,
                                      middlewares |-> c.middlewares,
                                      failureHandler |-> c.failureHandler],
                    compiledAt |-> 1] >>
    /\ reqs = <<>>

SpecConcurrent == InitConcurrent /\ [][ServeConcurrently]_vars

(* ------------------------------- claims -------------------------------- *)

Requests == {reqs[r] : r \in 1..Len(reqs)}
Done(rq) == rq.pc = "done"
RaisedAt(rq, at) == \E k \in 1..Len(rq.raised) : rq.raised[k].at = at
WithBody(rq) == MethodOf(rq) \in BodyMethods

\* The response a request ended with, when it returned one.
Responded(rq) == Done(rq) /\ rq.outcome.kind = "returned"
StatusOf(rq) == rq.outcome.response.status
BodyOf(rq) == rq.outcome.response.body

\* C1 (as claimed): when the payload parses and the body schema rejects it,
\* the request ends with status 400, type VALIDATION_ERROR and the schema's
\* issues.
C1_BodyRejectionIsValidationError ==
  \A rq \in Requests :
    (/\ WithBody(rq)
     /\ builders[ThisOf(rq)].bodySchema # Undefined
     /\ \E k \in 1..Len(rq.raised) :
          /\ rq.raised[k].at = "body"
          /\ rq.raised[k].value.isApiError
          /\ rq.raised[k].value.props.type = Str("VALIDATION_ERROR"))
    => /\ Responded(rq)
       /\ StatusOf(rq) = Num(400)
       /\ BodyOf(rq) = [message |-> Str("Invalid input."),
                        type |-> Str("VALIDATION_ERROR"),
                        issues |-> Issues(builders[ThisOf(rq)].bodySchema, rq.json)]

\* C2 (as claimed): in the input of every middleware step and of the handler,
\* context, query and body are undefined when the corresponding schema was
\* never configured.
C2_UnconfiguredFieldsUndefined ==
  \A rq \in Requests : \A k \in 1..Len(rq.calls) :
    LET input == rq.calls[k].input
        this == builders[ThisOf(rq)]
    IN  /\ this.contextSchema = Undefined => input.context = Undefined
        /\ this.querySchema = Undefined => input.query = Undefined
        /\ this.bodySchema = Undefined => input.body = Undefined

\* C3: with a body schema, on POST/PUT/PATCH, an unparsable payload never
\* lets a middleware step or the handler run, and once the parse has failed
\* the request has ended with status 400 and type INVALID_BODY.
C3_UnparsableWithSchemaIsInvalidBody ==
  \A rq \in Requests :
    (/\ WithBody(rq)
     /\ builders[ThisOf(rq)].bodySchema # Undefined
     /\ RaisedAt(rq, "json"))
    => /\ Responded(rq)
       /\ StatusOf(rq) = Num(400)
       /\ BodyOf(rq).type = Str("INVALID_BODY")
       /\ rq.calls = <<>>

C3_Witness ==
  \E rq \in Requests :
    /\ WithBody(rq)
    /\ builders[ThisOf(rq)].bodySchema # Undefined
    /\ RaisedAt(rq, "json")
    /\ Responded(rq)
    /\ BodyOf(rq).type = Str("INVALID_BODY")

\* The callback the pipeline calls first: the first middleware, or the
\* handler when there is none.
FirstCallee(rq) ==
  IF MiddlewaresOf(ThisOf(rq)) = <<>>
  THEN routes[rq.route].handler
  ELSE MiddlewaresOf(ThisOf(rq))[1]

\* C4: without a body schema, on POST/PUT/PATCH, an unparsable payload raises
\* nothing: no error reaches the catch block because of it, body is
\* undefined in every input, and the pipeline has gone on to the first
\* middleware step (or the handler when there is none).
C4_UnparsableWithoutSchemaProceeds ==
  \A rq \in Requests :
    (/\ WithBody(rq)
     /\ builders[ThisOf(rq)].bodySchema = Undefined
     /\ RaisedAt(rq, "json"))
    => /\ ~RaisedAt(rq, "bodyCatch")
       /\ rq.caught # SyntaxError
       /\ rq.validatedBody = Undefined
       /\ Len(rq.calls) >= 1
       /\ rq.calls[1].fn = FirstCallee(rq)
       /\ \A k \in 1..Len(rq.calls) : rq.calls[k].input.body = Undefined
       /\ (Done(rq) /\ rq.raised = <<[at |-> "json", value |-> SyntaxError]>>)
            => rq.calls[Len(rq.calls)].fn = routes[rq.route].handler

C4_Witness ==
  \E rq \in Requests :
    /\ WithBody(rq)
    /\ builders[ThisOf(rq)].bodySchema = Undefined
    /\ RaisedAt(rq, "json")
    /\ MiddlewaresOf(ThisOf(rq)) # <<>>
    /\ Done(rq)
    /\ rq.result # Undefined

\* The value of `key` in the left-to-right merge of outs: that of the last
\* output that has the key.
LastWith(outs, key) ==
  LET ks == {k \in 1..Len(outs) : key \in DOMAIN outs[k]}
  IN  outs[CHOOSE k \in ks : \A j \in ks : j <= k][key]

MergedCtx(outs) ==
  [key \in UNION {DOMAIN outs[k] : k \in 1..Len(outs)} |-> LastWith(outs, key)]

\* C5: the k-th callback invoked (middleware step k, or the handler after the
\* last step) receives as ctx the left-to-right merge of the outputs of the
\* steps before it, later keys overriding earlier ones; steps are invoked in
\* list order and the handler after all of them.
C5_CtxIsMergeOfEarlierOutputs ==
  \A rq \in Requests : \A k \in 1..Len(rq.calls) :
    LET mws == MiddlewaresOf(ThisOf(rq))
    IN  /\ k <= Len(rq.outs) + 1
        /\ rq.calls[k].input.ctx = MergedCtx(SubSeq(rq.outs, 1, k - 1))
        /\ k <= Len(mws) => rq.calls[k].fn = mws[k]
        /\ k > Len(mws) => /\ k = Len(mws) + 1
                           /\ rq.calls[k].fn = routes[rq.route].handler
                           /\ Len(rq.outs) = Len(mws)

C5_Witness ==
  \E rq \in Requests :
    /\ Len(rq.calls) = 3
    /\ rq.outs = <<[user |-> Str("u1")], [user |-> Str("u2"), role |-> Str("admin")]>>
    /\ rq.calls[2].input.ctx = [user |-> Str("u1")]
    /\ rq.calls[3].input.ctx = [user |-> Str("u2"), role |-> Str("admin")]
    /\ rq.calls[3].fn = routes[rq.route].handler

\* The raised values that are instances of ApiError, and those that carry a
\* string digest beginning with NEXT_.
TypedErrors == {e \in RaisedValues : e.isApiError}
ControlFlowSignals == {Redirect, ApiErrorWithDigest}

\* C6: the failure hook is invoked only for an error that reaches the catch
\* block and is neither a Typed Error nor a control-flow signal; a Typed
\* Error raised at any stage (by validation, a middleware step or the
\* handler) never leads to a hook invocation.
C6_HookOnlyForUnclassified ==
  \A rq \in Requests :
    /\ rq.hookCalls # <<>> =>
         /\ rq.caught # Undefined
         /\ ~rq.caught.isApiError
         /\ rq.caught \notin ControlFlowSignals
         /\ rq.hookCalls[1].input.error = rq.caught
    /\ (\E k \in 1..Len(rq.raised) :
          /\ rq.raised[k].at \in {"context", "query", "body", "bodyCatch",
                                  "middleware", "handler"}
          /\ rq.raised[k].value.isApiError)
       => rq.hookCalls = <<>>

C6_Witness ==
  \E rq \in Requests :
    /\ builders[ThisOf(rq)].failureHandler # Undefined
    /\ Done(rq)
    /\ rq.raised = <<[at |-> "handler", value |-> Unauthorized]>>
    /\ rq.hookCalls = <<>>

GenericResponse ==
  [isNextResponse |-> TRUE, status |-> Num(500),
   body |-> [message |-> Str("An internal server error occurred."),
             type |-> Str("INTERNAL_SERVER_ERROR")]]

\* C7: when the failure hook raises, nothing is re-raised and the response
\* is the generic 500, the same as when the hook succeeds or none is installed.
C7_RaisingHookStillGeneric500 ==
  \A rq \in Requests :
    /\ RaisedAt(rq, "hook") => Done(rq) /\ rq.outcome = Returned(GenericResponse)
    /\ (Done(rq) /\ rq.caught # Undefined /\ ~rq.caught.isApiError
          /\ rq.caught \notin ControlFlowSignals)
       => rq.outcome = Returned(GenericResponse)

C7_Witness ==
  \E rq \in Requests :
    /\ RaisedAt(rq, "hook")
    /\ rq.raised[Len(rq.raised)].value = Redirect
    /\ rq.outcome = Returned(GenericResponse)

\* C8: a control-flow signal raised by a middleware step or by the handler
\* leaves the entry point as the same value; no response is produced and the
\* failure hook is not invoked.
C8_SignalRethrownUnchanged ==
  \A rq \in Requests : \A k \in 1..Len(rq.raised) :
    (/\ rq.raised[k].at \in {"middleware", "handler"}
     /\ rq.raised[k].value \in ControlFlowSignals)
    => /\ Done(rq)
       /\ rq.outcome = [kind |-> "thrown", value |-> rq.raised[k].value]
       /\ rq.hookCalls = <<>>

C8_Witness ==
  \E rq \in Requests :
    /\ builders[ThisOf(rq)].failureHandler # Undefined
    /\ rq.raised = <<[at |-> "handler", value |-> Redirect]>>
    /\ rq.outcome = [kind |-> "thrown", value |-> Redirect]

\* C9: when the handler returns, a response object is returned as it is;
\* any other result is encoded as the body, with status 201 for POST and
\* 200 for GET, PUT, PATCH and DELETE.
C9_SuccessStatus ==
  \A rq \in Requests :
    rq.result # Undefined =>
      /\ Responded(rq)
      /\ rq.result.isNextResponse => rq.outcome.response = rq.result
      /\ ~rq.result.isNextResponse =>
           /\ StatusOf(rq) = IF MethodOf(rq) = "POST" THEN Num(201) ELSE Num(200)
           /\ BodyOf(rq) = JsonStringify(rq.result.value)
           /\ \A p \in DOMAIN BodyOf(rq) : BodyOf(rq)[p] = rq.result.value[p]

C9_Witness ==
  \E rq \in Requests :
    /\ MethodOf(rq) = "PUT"
    /\ rq.result = [isNextResponse |-> FALSE, value |-> [id |-> Str("1")]]
    /\ StatusOf(rq) = Num(200)


\* Every existing builder and every compiled entry point is left as it is.
Frozen ==
  /\ Len(builders') >= Len(builders)
  /\ Len(routes') >= Len(routes)
  /\ \A b \in 1..Len(builders) :
       /\ builders'[b] = builders[b]
       /\ arrays'[builders'[b].middlewares] = arrays[builders[b].middlewares]
  /\ \A e \in 1..Len(routes) : routes'[e] = routes[e]
  /\ builders' # builders =>
       /\ Len(builders') = Len(builders) + 1
       /\ routes' = routes

\* A field validated under `schema`: the raw datum when there is no schema.
ValidatedUnder(schema, value, raw) ==
  IF schema = Undefined THEN value \in raw
  ELSE "by" \in DOMAIN value /\ value.by = schema /\ value.parsed \in raw

\* A request has used only the configuration its entry point was compiled from.
RunsAsCompiled(rq) ==
  LET cfg == routes[rq.route].compiledFrom
  IN  /\ \A k \in 1..Len(rq.calls) :
           /\ k <= Len(cfg.middlewares) => rq.calls[k].fn = cfg.middlewares[k]
           /\ k > Len(cfg.middlewares) =>
                /\ k = Len(cfg.middlewares) + 1
                /\ rq.calls[k].fn = routes[rq.route].handler
           /\ ValidatedUnder(cfg.contextSchema, rq.calls[k].input.context, ParamsValues)
           /\ ValidatedUnder(cfg.querySchema, rq.calls[k].input.query,
                             {FromEntries(sp) : sp \in SearchParamsValues})
           /\ rq.calls[k].input.body # Undefined =>
                ValidatedUnder(cfg.bodySchema, rq.calls[k].input.body, JsonValues)
      /\ \A k \in 1..Len(rq.raised) :
           LET schemaAt == [context |-> cfg.contextSchema, query |-> cfg.querySchema,
                            body |-> cfg.bodySchema]
               at == rq.raised[k].at
               value == rq.raised[k].value
           IN  /\ at \in DOMAIN schemaAt => schemaAt[at] # Undefined
               /\ (at \in DOMAIN schemaAt /\ value.isApiError
                     /\ value.props.type = Str("VALIDATION_ERROR"))
                  => value.props.issues.array[1].by = schemaAt[at]
               /\ at = "bodyCatch" => cfg.bodySchema # Undefined
               /\ at = "hook" => cfg.failureHandler # Undefined
      /\ Len(rq.hookCalls) <= 1
      /\ \A k \in 1..Len(rq.hookCalls) : rq.hookCalls[k].fn = cfg.failureHandler
      /\ (Done(rq) /\ rq.caught # Undefined /\ ~rq.caught.isApiError
            /\ rq.caught \notin ControlFlowSignals /\ cfg.failureHandler # Undefined)
         => Len(rq.hookCalls) = 1

AsCompiled ==
  /\ \A e \in 1..Len(routes) :
       /\ routes[e].this \in 1..Len(builders)
       /\ ConfigOf(routes[e].this) = routes[e].compiledFrom
  /\ \A rq \in Requests : RunsAsCompiled(rq)

\* C10: no operation changes an existing builder or a compiled entry point
\* (each configuration call adds one new builder, a terminal call adds an
\* entry point and leaves the builders alone), and every request runs with
\* the schemas, middleware list and hook of the builder its entry point was
\* compiled from.
C10_BuildersAndRoutesImmutable == [][Frozen]_vars /\ []AsCompiled

\* Two use() branches of the base builder made after an entry point was
\* compiled from the base, and a request on that entry point that ran the
\* handler with no middleware.
C10_Witness ==
  /\ Len(builders) = 3
  /\ MiddlewaresOf(1) = <<>>
  /\ MiddlewaresOf(2) = <<"m1">>
  /\ MiddlewaresOf(3) = <<"m2">>
  /\ \E rq \in Requests :
       /\ routes[rq.route].this = 1
       /\ routes[rq.route].compiledAt = 1
       /\ rq.result # Undefined
       /\ Len(rq.calls) = 1

\* C11: on GET and DELETE the payload is never parsed or validated, and body
\* is undefined in the input of every middleware step and of the handler,
\* with or without a body schema.
C11_NoBodyOnGetAndDelete ==
  \A rq \in Requests :
    MethodOf(rq) \in {"GET", "DELETE"} =>
      /\ rq.pc \notin {"json", "body"}
      /\ rq.json = Undefined
      /\ rq.validatedBody = Undefined
      /\ \A k \in 1..Len(rq.raised) : rq.raised[k].at \notin {"json", "body", "bodyCatch"}
      /\ \A k \in 1..Len(rq.calls) : rq.calls[k].input.body = Undefined

C11_Witness ==
  \E rq \in Requests :
    /\ MethodOf(rq) = "DELETE"
    /\ builders[ThisOf(rq)].bodySchema # Undefined
    /\ Len(rq.calls) = 2
    /\ rq.result # Undefined

\* The response that carries message, type and (when defined) issues of a
\* Typed Error at the error's code.
VerbatimResponse(error) ==
  [isNextResponse |-> TRUE, status |-> error.props.code,
   body |-> IF error.props.issues = Undefined
            THEN [message |-> error.props.message, type |-> error.props.type]
            ELSE [message |-> error.props.message, type |-> error.props.type,
                  issues |-> error.props.issues]]

\* C12 (as claimed): every Typed Error raised by a middleware step or the
\* handler is mapped verbatim to a response.
C12_EveryTypedErrorMapped ==
  \A rq \in Requests : \A k \in 1..Len(rq.raised) :
    (rq.raised[k].at \in {"middleware", "handler"} /\ rq.raised[k].value.isApiError)
    => rq.outcome = Returned(VerbatimResponse(rq.raised[k].value))

\* C12 (amended): a Typed Error raised by a middleware step or the handler
\* that carries no string digest beginning with NEXT_ is mapped verbatim:
\* status is its code, the body its message, type and issues; one built
\* without code and type gives status 500, type INTERNAL_SERVER_ERROR and
\* its own message; the failure hook is not invoked.
C12_TypedErrorMappedUnlessSignal ==
  \A rq \in Requests : \A k \in 1..Len(rq.raised) :
    (/\ rq.raised[k].at \in {"middleware", "handler"}
     /\ rq.raised[k].value.isApiError
     /\ rq.raised[k].value \notin ControlFlowSignals)
    => /\ rq.outcome = Returned(VerbatimResponse(rq.raised[k].value))
       /\ rq.hookCalls = <<>>
       /\ rq.raised[k].value.props.message = Str("boom") =>
            rq.outcome.response =
              [isNextResponse |-> TRUE, status |-> Num(500),
               body |-> [message |-> Str("boom"), type |-> Str("INTERNAL_SERVER_ERROR")]]
       /\ rq.raised[k].value.props.message = Str("no") =>
            rq.outcome.response =
              [isNextResponse |-> TRUE, status |-> Num(401),
               body |-> [message |-> Str("no"), type |-> Str("UNAUTHORIZED"),
                         issues |-> Arr(<< [field |-> Str("token")] >>)]]

C12_Witness ==
  \E rq \in Requests :
    /\ builders[ThisOf(rq)].failureHandler # Undefined
    /\ rq.raised = <<[at |-> "middleware", value |-> BareApiError]>>
    /\ Responded(rq)
    /\ StatusOf(rq) = Num(500)
    /\ BodyOf(rq).message = Str("boom")

\* C13: every failure that reaches the catch block and is not a control-flow
\* signal ends in a response whose body has message and type; when the
\* failure is unclassified the response is the one generic response, whatever
\* the error and whatever the failure hook did: status 500, no issues,
\* nothing of the error.
C13_FailuresStructuredAndGeneric ==
  \A rq \in Requests :
    (Done(rq) /\ rq.caught # Undefined /\ rq.caught \notin ControlFlowSignals)
    => /\ Responded(rq)
       /\ {"message", "type"} \subseteq DOMAIN BodyOf(rq)
       /\ ~rq.caught.isApiError =>
            /\ rq.outcome.response = GenericResponse
            /\ DOMAIN BodyOf(rq) = {"message", "type"}

C13_Witness ==
  \E rq \in Requests :
    /\ Done(rq)
    /\ rq.caught = OtherCrash
    /\ rq.hookCalls # <<>>
    /\ rq.outcome.response = GenericResponse

\* C14 (as claimed): when the body validator itself raises after a successful
\* parse, a control-flow signal is re-raised unchanged, and an unclassified
\* error ends in the generic 500 with the failure hook invoked when one is
\* installed; neither becomes INVALID_BODY nor is ignored.
C14_BodyValidatorRaiseClassified ==
  \A rq \in Requests : \A k \in 1..Len(rq.raised) :
    (rq.raised[k].at = "body" /\ Done(rq)) =>
      LET e == rq.raised[k].value
      IN  /\ e \in ControlFlowSignals => rq.outcome = Rethrown(e)
          /\ (~e.isApiError /\ e \notin ControlFlowSignals) =>
               /\ rq.outcome = Returned(GenericResponse)
               /\ builders[ThisOf(rq)].failureHandler # Undefined =>
                    /\ Len(rq.hookCalls) = 1
                    /\ rq.hookCalls[1].input.error = e

\* Stages whose raise goes to the outer catch block.
OuterStages == {"context", "query", "bodyCatch", "middleware", "handler"}

\* C16: the first raise that reaches the catch block is terminal. After a
\* context failure neither query validation, payload parsing, a middleware
\* step nor the handler has started; after a query failure neither parsing, a
\* middleware step nor the handler; after middleware step k raises, step k is
\* the last callback started.
C16_FirstRaiseTerminal ==
  \A rq \in Requests : \A k \in 1..Len(rq.raised) :
    rq.raised[k].at \in OuterStages =>
      /\ rq.pc \in {"inHook", "done"}
      /\ \A j \in (k + 1)..Len(rq.raised) : rq.raised[j].at = "hook"
      /\ rq.raised[k].at = "context" =>
           /\ rq.validatedContext = Undefined /\ rq.validatedQuery = Undefined
           /\ rq.json = Undefined /\ rq.validatedBody = Undefined
           /\ k = 1 /\ rq.calls = <<>>
      /\ rq.raised[k].at = "query" =>
           /\ rq.validatedQuery = Undefined
           /\ rq.json = Undefined /\ rq.validatedBody = Undefined
           /\ k = 1 /\ rq.calls = <<>>
      /\ rq.raised[k].at = "middleware" =>
           /\ Len(rq.calls) = Len(rq.outs) + 1
           /\ rq.calls[Len(rq.calls)].fn = MiddlewaresOf(ThisOf(rq))[Len(rq.calls)]
           /\ rq.result = Undefined

C16_Witness ==
  \E rq \in Requests :
    /\ Len(MiddlewaresOf(ThisOf(rq))) = 2
    /\ Done(rq)
    /\ rq.raised = <<[at |-> "middleware", value |-> Crash]>>
    /\ Len(rq.calls) = 1

\* C20: classification is by fixed precedence: digest first, then Typed
\* Error, then unclassified. A raised Typed Error that carries a string digest
\* beginning with NEXT_ is re-raised unchanged and gives no response; a value
\* whose digest is missing, not a string, or does not begin with NEXT_ is
\* never re-raised.
C20_ClassificationPrecedence ==
  \A rq \in Requests :
    (Done(rq) /\ rq.caught # Undefined) =>
      LET digest == Get(rq.caught.props, "digest")
          marked == /\ rq.caught.typeof = "object" /\ ~rq.caught.isNull
                    /\ TypeOf(digest) = "string"
                    /\ StartsWith(digest.chars, NextPrefix)
      IN  /\ marked => rq.outcome = Rethrown(rq.caught)
          /\ ~marked => rq.outcome.kind = "returned"
          /\ rq.caught = ApiErrorWithDigest =>
               rq.outcome = [kind |-> "thrown", value |-> ApiErrorWithDigest]
          /\ rq.caught \in {ShortDigest, NumberDigest, ThrownString, ThrownNull,
                            Crash, BareApiError} => rq.outcome.kind = "returned"
          /\ (~marked /\ rq.caught.isApiError) =>
               StatusOf(rq) = rq.caught.props.code
          /\ (~marked /\ ~rq.caught.isApiError) =>
               rq.outcome.response = GenericResponse

C20_Witness ==
  \E rq \in Requests :
    /\ Done(rq)
    /\ rq.raised = <<[at |-> "handler", value |-> ApiErrorWithDigest]>>
    /\ rq.outcome = Rethrown(ApiErrorWithDigest)
    /\ rq.hookCalls = <<>>

\* The stages a request may be at right after being at stage pc, while it
\* has not failed.
NextStages(rq) ==
  CASE rq.pc = "context" -> {"query"}
    [] rq.pc = "query" -> IF WithBody(rq) THEN {"json"} ELSE {"inMiddleware", "inHandler"}
    [] rq.pc = "json" -> {"body", "inMiddleware", "inHandler"}
    [] rq.pc = "body" -> {"inMiddleware", "inHandler"}
    [] rq.pc = "inMiddleware" -> {"inMiddleware", "inHandler"}
    [] OTHER -> {}

\* One step of a request in flight: it moves to the next stage or to the
\* catch block; a callback is started only when every callback started before
\* it has returned, the first one only after the validations, and the handler
\* only after every middleware step has returned.
StageOrder ==
  \A r \in 1..Len(reqs) :
    LET rq == reqs[r]
        rq2 == reqs'[r]
    IN  (rq.pc # "done" /\ rq2 # rq) =>
          /\ rq2.pc \in NextStages(rq) \cup {"inHook", "done"}
          /\ rq2.pc \in {"inMiddleware", "inHandler"} =>
               /\ Len(rq2.calls) = Len(rq.calls) + 1
               /\ Len(rq2.outs) = Len(rq.calls)
               /\ rq2.validatedContext # Undefined
               /\ rq2.validatedQuery # Undefined
               /\ WithBody(rq) => rq.pc \in {"json", "body", "inMiddleware"}
          /\ rq2.pc \notin {"inMiddleware", "inHandler"} => rq2.calls = rq.calls
          /\ rq2.pc = "inHandler" =>
               Len(rq2.outs) = Len(MiddlewaresOf(ThisOf(rq)))

\* use(m) gives a builder whose list is the receiver's list followed by m.
UseAppends ==
  \A this \in 1..Len(builders), m \in MiddlewareFns :
    use(this, m) =>
      arrays'[builders'[Len(builders')].middlewares] = Append(MiddlewaresOf(this), m)

\* The callbacks started so far are a prefix of the builder's list followed
\* by the handler.
StartedInListOrder ==
  \A rq \in Requests :
    LET middlewares == MiddlewaresOf(ThisOf(rq))
    IN  \A k \in 1..Len(rq.calls) :
          rq.calls[k].fn = IF k <= Len(middlewares) THEN middlewares[k]
                           ELSE routes[rq.route].handler

\* C15: within one request the stages run one after the other in the order
\* context validation, query validation, body validation, middleware steps in
\* insertion order, handler; no stage starts before the previous one has
\* completed; a builder made by use(m1) then use(m2) starts m1 before m2; the
\* handler starts only after the last middleware step has completed.
C15_StagesSequentialInOrder ==
  [][StageOrder /\ UseAppends]_vars /\ []StartedInListOrder

C15_Witness ==
  /\ Len(builders) = 3
  /\ MiddlewaresOf(2) = <<"m1">>
  /\ MiddlewaresOf(3) = <<"m1", "m2">>
  /\ \E rq \in Requests :
       /\ ThisOf(rq) = 3
       /\ MethodOf(rq) = "POST"
       /\ rq.result # Undefined
       /\ Len(rq.calls) = 3
       /\ rq.calls[1].fn = "m1" /\ rq.calls[2].fn = "m2"

\* failed(h) gives a builder whose hook is h, whatever hook the receiver had.
FailedReplaces ==
  \A this \in 1..Len(builders), h \in FailureHandlers :
    failed(this, h) => builders'[Len(builders')].failureHandler = h

\* The hook a request invoked is the one of its builder, invoked once with
\* the request and the caught error, and only that hook was invoked.
HookOnceWithRequestAndError ==
  \A rq \in Requests :
    LET failureHandler == builders[ThisOf(rq)].failureHandler
    IN  /\ Len(rq.hookCalls) <= 1
        /\ \A k \in 1..Len(rq.hookCalls) :
             rq.hookCalls[k] = [fn |-> failureHandler,
                                input |-> [req |-> rq.req, error |-> rq.caught]]
        /\ (/\ rq.pc \in {"inHook", "done"}
            /\ rq.caught # Undefined
            /\ ~rq.caught.isApiError
            /\ rq.caught \notin ControlFlowSignals
            /\ failureHandler # Undefined) => Len(rq.hookCalls) = 1

\* C18: after failed(h1) then failed(h2), an unclassified error in a request
\* invokes h2 exactly once, with that request and that error, and never h1;
\* no request invokes a failure hook more than once.
C18_LastHookOnce == [][FailedReplaces]_vars /\ []HookOnceWithRequestAndError

C18_Witness ==
  /\ Len(builders) = 3
  /\ builders[2].failureHandler = Fn("h1")
  /\ builders[3].failureHandler = Fn("h2")
  /\ \E rq \in Requests :
       /\ ThisOf(rq) = 3
       /\ Done(rq)
       /\ rq.caught = Crash
       /\ rq.hookCalls = << [fn |-> Fn("h2"), input |-> [req |-> rq.req, error |-> Crash]] >>

InFlight == \E rq \in Requests : ~Done(rq)
AllSettled == \A rq \in Requests : Done(rq)

\* A request has an outcome exactly when it is done, and the outcome is a
\* response or a re-raised value with a string digest beginning with NEXT_.
OneTerminalOutcome ==
  \A rq \in Requests :
    /\ ~Done(rq) => rq.outcome = Undefined
    /\ Done(rq) =>
         \/ rq.outcome.kind = "returned" /\ rq.outcome.response.isNextResponse
         \/ /\ rq.outcome.kind = "thrown"
            /\ rq.outcome.value = rq.caught
            /\ "digest" \in DOMAIN rq.outcome.value.props
            /\ "chars" \in DOMAIN rq.outcome.value.props.digest
            /\ StartsWith(rq.outcome.value.props.digest.chars, NextPrefix)

\* C19: provided every validator, middleware step, handler and hook
\* invocation completes, every request eventually reaches exactly one
\* terminal outcome, a returned response or a re-raised control-flow signal;
\* no other raised value escapes the entry point.
C19_EveryRequestTerminates == []OneTerminalOutcome /\ (InFlight ~> AllSettled)

C19_Witness ==
  \E rq \in Requests :
    /\ Done(rq)
    /\ Len(rq.calls) = 3
    /\ rq.raised = <<[at |-> "handler", value |-> Crash], [at |-> "hook", value |-> Redirect]>>
    /\ rq.outcome = Returned(GenericResponse)

\* Every ctx a request's callbacks saw is made of that request's own
\* middleware outputs, starting from the empty object.
CtxFromOwnOutputs ==
  \A r \in 1..Len(reqs) :
    LET rq == reqs[r]
    IN  /\ rq.req = r
        /\ rq.pc \in {"context", "query", "json", "body"} =>
             rq.cumulativeCtx = EmptyObject /\ rq.calls = <<>>
        /\ rq.calls # <<>> =>
             /\ rq.calls[1].input.ctx = EmptyObject
             /\ rq.cumulativeCtx = MergedCtx(rq.outs)
        /\ \A k \in 1..Len(rq.calls) :
             /\ rq.calls[k].input.req = r
             /\ rq.calls[k].input.ctx = MergedCtx(SubSeq(rq.outs, 1, k - 1))
             /\ \A key \in DOMAIN rq.calls[k].input.ctx :
                  \E j \in 1..(k - 1) :
                    /\ key \in DOMAIN rq.outs[j]
                    /\ rq.outs[j][key] = rq.calls[k].input.ctx[key]

\* A step serves one request: it leaves the other requests, the builders and
\* the entry points as they were.
OneRequestPerStep ==
  /\ builders' = builders /\ arrays' = arrays /\ routes' = routes
  /\ \A r, q \in 1..Len(reqs) :
       (reqs'[r] # reqs[r] /\ reqs'[q] # reqs[q]) => r = q
  /\ Len(reqs') > Len(reqs) =>
       /\ Len(reqs') = Len(reqs) + 1
       /\ \A r \in 1..Len(reqs) : reqs'[r] = reqs[r]

\* C17: with several requests in flight on one entry point, interleaved at
\* every await, each request's cumulative context starts empty and holds only
\* what middleware invocations made for that request returned; no request sees
\* in ctx a value produced for another; the builder configuration is the same
\* before and after every request.
C17_RequestsIsolated == [][OneRequestPerStep]_vars /\ []CtxFromOwnOutputs

C17_Witness ==
  /\ Len(reqs) = 2
  /\ reqs[1].pc = "inHandler" /\ reqs[2].pc = "inHandler"
  /\ reqs[1].calls[Len(reqs[1].calls)].input.ctx = [user |-> Str("u1")]
  /\ reqs[2].calls[Len(reqs[2].calls)].input.ctx # EmptyObject
  /\ reqs[2].calls[Len(reqs[2].calls)].input.ctx # [user |-> Str("u1")]

====
